---- MODULE Spec2Model ----
(***************************************************************************)
(* Model of HyperRelKG:                                                    *)
(*   - training_loop_gcn            (src/src/loops/old_loops.py)            *)
(*   - HypRelModel.forward          (src/src/models/hyper_gcn.py)           *)
(*   - CompGCNConv                  (src/src/models/old_gnn_layer.py)       *)
(* Each part has its own variables and its own specification; the variables *)
(* of the other parts stay at their idle values.                           *)
(***************************************************************************)
EXTENDS Integers, Sequences, FiniteSets, TLC

(***************************************************************************)
(* Bounds of the model.                                                    *)
(***************************************************************************)
MaxEpochs == 4
MaxEvalEvery == 2
MaxEarlyStopping == 3
MaxBatches == 2
MaxIx == 1
MaxSize == 3

\* MRR values the validation benchmark may report, in tenths (0.2, 0.3, 0.5).
MRRValues == {2, 3, 5}

\* Python's None / an optional value that is set.
None == <<>>
Some(n) == <<n>>
Val(o) == o[1]

(***************************************************************************)
(* State of training_loop_gcn.                                             *)
(***************************************************************************)
VARIABLES
    epochs,           \* parameter: number of epochs
    eval_every,       \* parameter: evaluation interval
    early_stopping,   \* parameter: None or Some(window)
    scheduler,        \* parameter: TRUE iff a scheduler is configured
    grad_clipping,    \* parameter
    qualifier_aware,  \* parameter
    nbatches,         \* number of batches data_fn(data['train']) yields
    pc,               \* position in the function
    e,                \* loop variable of the epoch loop (0 before the loop)
    b,                \* batches of the current epoch already taken from trn_dl
    quals_bound,      \* whether the local _quals has been assigned
    per_epoch_loss,   \* list of batch losses of the current epoch
    events,           \* calls made on model / opt / val_testbench in this epoch
    train_loss, train_acc,
    valid_acc, valid_mrr, valid_mr,
    valid_hits_3, valid_hits_5, valid_hits_10,
    train_acc_bnchmk, train_mrr_bnchmk,
    train_hits_3_bnchmk, train_hits_5_bnchmk, train_hits_10_bnchmk,
    val_calls,        \* epochs at which val_testbench was invoked, in order
    sched_steps,      \* number of scheduler.step() calls
    sched_epochs,     \* epochs after which scheduler.step() was called
    console,          \* lines printed, each [epoch, kind]
    returned          \* the returned tuple (<<>> before the return)

paramVars == <<epochs, eval_every, early_stopping, scheduler, grad_clipping,
               qualifier_aware, nbatches>>
histVars == <<train_loss, train_acc, valid_acc, valid_mrr, valid_mr,
              valid_hits_3, valid_hits_5, valid_hits_10>>
bnchmkVars == <<train_acc_bnchmk, train_mrr_bnchmk, train_hits_3_bnchmk,
                train_hits_5_bnchmk, train_hits_10_bnchmk>>
loopVars == <<paramVars, pc, e, b, quals_bound, per_epoch_loss, events,
              histVars, bnchmkVars, val_calls, sched_steps, sched_epochs,
              console, returned>>

(***************************************************************************)
(* State of HypRelModel.forward.  Tensors are symbolic terms                *)
(* [op, args, ix]: the operation that produced them, its tensor arguments   *)
(* and its index arguments.                                                *)
(***************************************************************************)
VARIABLES
    only_trips,       \* config['ONLY-TRIPS']
    parallel,         \* self.parallel = config['PARALLEL']
    sub_ix, rel_ix, quals_ix,   \* the batch: one row, one qualifier pair
    aux_ent,          \* None or Some(auxiliary batch)
    fwd_pc,           \* position in forward
    enc_calls,        \* encoder invocations, in order: [enc, prop, x, r]
    x1, r1,           \* outputs of the triple encoder
    x, r,             \* final entity / relation embeddings
    obj_preds, aux_ent_preds,
    fwd_returned      \* the returned pair (<<>> before the return)

modelVars == <<only_trips, parallel, sub_ix, rel_ix, quals_ix, aux_ent, fwd_pc,
               enc_calls, x1, r1, x, r, obj_preds, aux_ent_preds, fwd_returned>>

(***************************************************************************)
(* State of CompGCNConv.forward.  A tensor is a sequence (a matrix a        *)
(* sequence of rows); position i of the code is position i + 1 here.        *)
(* Embeddings have dimension 1.                                            *)
(***************************************************************************)
VARIABLES
    edge_index,       \* argument: <<row 0, row 1>>, 2E columns
    edge_type,        \* argument: 2E relation ids
    quals,            \* argument: <<relation ids, entity ids, parent indices>>, 2Q columns
    opn,              \* self.opn
    prop_type,        \* argument of the last call ("none" before any call)
    conv_status,      \* "idle", "returned" or "IndexError"
    in_index, out_index, in_type, out_type,       \* locals of forward
    both_obj_in, both_obj_out, trip_rel_in, trip_rel_out,
    in_norm, out_norm,
    in_msg, out_msg, loop_msg   \* comp_agg of message() for mode in / out / loop

convInputs == <<edge_index, edge_type, quals, opn>>
convLocals == <<in_index, out_index, in_type, out_type, both_obj_in,
                both_obj_out, trip_rel_in, trip_rel_out, in_norm, out_norm,
                in_msg, out_msg, loop_msg>>
convVars == <<convInputs, prop_type, conv_status, convLocals>>

\* What each part leaves alone.
notLoopVars == <<modelVars, convVars>>
notModelVars == <<loopVars, convVars>>
notConvVars == <<loopVars, modelVars>>

vars == <<loopVars, modelVars, convVars>>

(***************************************************************************)
(* Helpers of the training loop.                                           *)
(***************************************************************************)
\* Python's s[-n:] on a list: for n = 0 this is s[0:], the whole list.
PyTail(s, n) ==
    IF n = 0 \/ n >= Len(s) THEN s ELSE SubSeq(s, Len(s) - n + 1, Len(s))

SeqMax(s) == CHOOSE m \in {s[i] : i \in 1..Len(s)} : \A i \in 1..Len(s) : s[i] <= m

\* np.argmax: 0-based index of the first occurrence of the maximum.
ArgMax(s) ==
    (CHOOSE i \in 1..Len(s) :
        /\ s[i] = SeqMax(s)
        /\ \A j \in 1..(i - 1) : s[j] # SeqMax(s)) - 1

\* The condition of line 98.
EvalDueOnEpochOne(ep) == ep % eval_every = 0 \/ ep = 1
EvalDue(ep) == ep % eval_every = 0 /\ ep >= 1

\* The condition of line 133.
EarlyStopCondStrict ==
    /\ early_stopping # None
    /\ Len(valid_mrr) > Val(early_stopping)
    /\ ArgMax(PyTail(valid_mrr, Val(early_stopping))) = 0
EarlyStopCond ==
    /\ early_stopping # None
    /\ Len(valid_mrr) >= Val(early_stopping)
    /\ ArgMax(PyTail(valid_mrr, Val(early_stopping))) = 0

Line(ep, kind) == [epoch |-> ep, kind |-> kind]

\* HypRelModel.forward is not running.
IdleModel ==
    /\ only_trips = FALSE /\ parallel = FALSE
    /\ sub_ix = 0 /\ rel_ix = 0 /\ quals_ix = <<>>
    /\ aux_ent = None
    /\ fwd_pc = "idle"
    /\ enc_calls = <<>>
    /\ x1 = None /\ r1 = None /\ x = None /\ r = None
    /\ obj_preds = None /\ aux_ent_preds = None
    /\ fwd_returned = <<>>

\* No CompGCNConv.forward call has been made.
IdleConv ==
    /\ edge_index = <<<<>>, <<>>>>
    /\ edge_type = <<>>
    /\ quals = <<<<>>, <<>>, <<>>>>
    /\ opn = "sub"
    /\ prop_type = "none"
    /\ conv_status = "idle"
    /\ in_index = None /\ out_index = None /\ in_type = None /\ out_type = None
    /\ both_obj_in = None /\ both_obj_out = None
    /\ trip_rel_in = None /\ trip_rel_out = None
    /\ in_norm = None /\ out_norm = None
    /\ in_msg = None /\ out_msg = None /\ loop_msg = None

\* training_loop_gcn is not running.
IdleLoop ==
    /\ epochs = 0 /\ eval_every = 1 /\ early_stopping = None
    /\ scheduler = FALSE /\ grad_clipping = FALSE /\ qualifier_aware = FALSE
    /\ nbatches = 0
    /\ pc = "idle"
    /\ e = 0 /\ b = 0
    /\ quals_bound = FALSE
    /\ per_epoch_loss = <<>>
    /\ events = <<>>
    /\ train_loss = <<>> /\ train_acc = <<>>
    /\ valid_acc = <<>> /\ valid_mrr = <<>> /\ valid_mr = <<>>
    /\ valid_hits_3 = <<>> /\ valid_hits_5 = <<>> /\ valid_hits_10 = <<>>
    /\ train_acc_bnchmk = <<>> /\ train_mrr_bnchmk = <<>>
    /\ train_hits_3_bnchmk = <<>> /\ train_hits_5_bnchmk = <<>>
    /\ train_hits_10_bnchmk = <<>>
    /\ val_calls = <<>>
    /\ sched_steps = 0
    /\ sched_epochs = <<>>
    /\ console = <<>>
    /\ returned = <<>>

\* The call training_loop_gcn(epochs, ..., scheduler) with its locals of
\* lines 48-56.
InitLoop ==
    /\ IdleModel
    /\ IdleConv
    /\ epochs \in 0..MaxEpochs
    /\ eval_every \in 1..MaxEvalEvery
    /\ early_stopping \in {None} \cup {Some(n) : n \in 0..MaxEarlyStopping}
    /\ scheduler \in BOOLEAN
    /\ grad_clipping \in BOOLEAN
    /\ qualifier_aware \in BOOLEAN
    /\ nbatches \in 0..MaxBatches
    /\ pc = "for_epoch"
    /\ e = 0
    /\ b = 0
    /\ quals_bound = FALSE
    /\ per_epoch_loss = <<>>
    /\ events = <<>>
    /\ train_loss = <<>> /\ train_acc = <<>>
    /\ valid_acc = <<>> /\ valid_mrr = <<>> /\ valid_mr = <<>>
    /\ valid_hits_3 = <<>> /\ valid_hits_5 = <<>> /\ valid_hits_10 = <<>>
    /\ train_acc_bnchmk = <<>> /\ train_mrr_bnchmk = <<>>
    /\ train_hits_3_bnchmk = <<>> /\ train_hits_5_bnchmk = <<>>
    /\ train_hits_10_bnchmk = <<>>
    /\ val_calls = <<>>
    /\ sched_steps = 0
    /\ sched_epochs = <<>>
    /\ console = <<>>
    /\ returned = <<>>

\* for e in range(1, epochs + 1): per_epoch_loss = []; trn_dl = data_fn(...);
\* model.train()
EpochStart ==
    /\ pc = "for_epoch"
    /\ e < epochs
    /\ e' = e + 1
    /\ per_epoch_loss' = <<>>
    /\ b' = 0
    /\ events' = <<>>
    /\ pc' = "for_batch"
    /\ UNCHANGED notLoopVars
    /\ UNCHANGED <<paramVars, quals_bound, histVars, bnchmkVars, val_calls,
                   sched_steps, sched_epochs, console, returned>>

\* The epoch range is exhausted: fall through to the return statement.
EpochsExhausted ==
    /\ pc = "for_epoch"
    /\ e >= epochs
    /\ pc' = "return"
    /\ UNCHANGED notLoopVars
    /\ UNCHANGED <<paramVars, e, b, quals_bound, per_epoch_loss, events,
                   histVars, bnchmkVars, val_calls, sched_steps, sched_epochs,
                   console, returned>>

\* for batch in tqdm(trn_dl): opt.zero_grad()
ZeroGrad ==
    /\ pc = "for_batch"
    /\ b < nbatches
    /\ b' = b + 1
    /\ events' = Append(events, "zero_grad")
    /\ pc' = "unpack"
    /\ UNCHANGED notLoopVars
    /\ UNCHANGED <<paramVars, e, quals_bound, per_epoch_loss, histVars,
                   bnchmkVars, val_calls, sched_steps, sched_epochs, console,
                   returned>>

\* The batch iterator is exhausted.
BatchesExhausted ==
    /\ pc = "for_batch"
    /\ b >= nbatches
    /\ pc' = "print_loss"
    /\ UNCHANGED notLoopVars
    /\ UNCHANGED <<paramVars, e, b, quals_bound, per_epoch_loss, events,
                   histVars, bnchmkVars, val_calls, sched_steps, sched_epochs,
                   console, returned>>

\* A variant that assigns _quals in every batch.
UnpackAlwaysBinds ==
    /\ pc = "unpack"
    /\ quals_bound' = TRUE
    /\ pc' = "forward"
    /\ UNCHANGED notLoopVars
    /\ UNCHANGED <<paramVars, e, b, per_epoch_loss, events, histVars,
                   bnchmkVars, val_calls, sched_steps, sched_epochs, console,
                   returned>>

\* triples, labels = batch ... _labels = torch.tensor(...): _quals is assigned
\* only when qualifier_aware.
Unpack ==
    /\ pc = "unpack"
    /\ quals_bound' = (quals_bound \/ qualifier_aware)
    /\ pc' = "forward"
    /\ UNCHANGED notLoopVars
    /\ UNCHANGED <<paramVars, e, b, per_epoch_loss, events, histVars,
                   bnchmkVars, val_calls, sched_steps, sched_epochs, console,
                   returned>>

\* pred = model(_sub, _rel, _quals)
ModelForward ==
    /\ pc = "forward"
    /\ quals_bound
    /\ events' = Append(events, "forward")
    /\ pc' = "loss"
    /\ UNCHANGED notLoopVars
    /\ UNCHANGED <<paramVars, e, b, quals_bound, per_epoch_loss, histVars,
                   bnchmkVars, val_calls, sched_steps, sched_epochs, console,
                   returned>>

\* Reading the unassigned local _quals raises; nothing catches it.
ModelForwardUnbound ==
    /\ pc = "forward"
    /\ ~quals_bound
    /\ pc' = "raised"
    /\ UNCHANGED notLoopVars
    /\ UNCHANGED <<paramVars, e, b, quals_bound, per_epoch_loss, events,
                   histVars, bnchmkVars, val_calls, sched_steps, sched_epochs,
                   console, returned>>

\* loss = model.loss(pred, _labels)
Loss ==
    /\ pc = "loss"
    /\ events' = Append(events, "loss")
    /\ pc' = "record_loss"
    /\ UNCHANGED notLoopVars
    /\ UNCHANGED <<paramVars, e, b, quals_bound, per_epoch_loss, histVars,
                   bnchmkVars, val_calls, sched_steps, sched_epochs, console,
                   returned>>

\* per_epoch_loss.append(loss.item()); the loss is identified by its batch.
RecordLoss ==
    /\ pc = "record_loss"
    /\ per_epoch_loss' = Append(per_epoch_loss, b)
    /\ events' = Append(events, "record_loss")
    /\ pc' = "backward"
    /\ UNCHANGED notLoopVars
    /\ UNCHANGED <<paramVars, e, b, quals_bound, histVars, bnchmkVars,
                   val_calls, sched_steps, sched_epochs, console, returned>>

\* loss.backward()
Backward ==
    /\ pc = "backward"
    /\ events' = Append(events, "backward")
    /\ pc' = "clip"
    /\ UNCHANGED notLoopVars
    /\ UNCHANGED <<paramVars, e, b, quals_bound, per_epoch_loss, histVars,
                   bnchmkVars, val_calls, sched_steps, sched_epochs, console,
                   returned>>

\* if grad_clipping: torch.nn.utils.clip_grad_norm_(model.parameters(), 1.0)
ClipGradNormAlways ==
    /\ pc = "clip"
    /\ events' = Append(events, "clip_grad_norm")
    /\ pc' = "opt_step"
    /\ UNCHANGED notLoopVars
    /\ UNCHANGED <<paramVars, e, b, quals_bound, per_epoch_loss, histVars,
                   bnchmkVars, val_calls, sched_steps, sched_epochs, console,
                   returned>>
ClipGradNorm ==
    /\ pc = "clip"
    /\ events' = IF grad_clipping THEN Append(events, "clip_grad_norm") ELSE events
    /\ pc' = "opt_step"
    /\ UNCHANGED notLoopVars
    /\ UNCHANGED <<paramVars, e, b, quals_bound, per_epoch_loss, histVars,
                   bnchmkVars, val_calls, sched_steps, sched_epochs, console,
                   returned>>

\* opt.step()
OptStep ==
    /\ pc = "opt_step"
    /\ events' = Append(events, "opt_step")
    /\ pc' = "for_batch"
    /\ UNCHANGED notLoopVars
    /\ UNCHANGED <<paramVars, e, b, quals_bound, per_epoch_loss, histVars,
                   bnchmkVars, val_calls, sched_steps, sched_epochs, console,
                   returned>>

\* print(f"[Epoch: {e} ] Loss: ..."); train_loss.append(np.mean(per_epoch_loss)).
\* The mean is identified by the epoch and the number of losses averaged.
PrintEpochLossSilent ==
    /\ pc = "print_loss"
    /\ train_loss' = Append(train_loss, <<e, Len(per_epoch_loss)>>)
    /\ pc' = "eval"
    /\ UNCHANGED notLoopVars
    /\ UNCHANGED <<paramVars, e, b, quals_bound, per_epoch_loss, events,
                   train_acc, valid_acc, valid_mrr, valid_mr, valid_hits_3,
                   valid_hits_5, valid_hits_10, bnchmkVars, val_calls,
                   sched_steps, sched_epochs, console, returned>>
PrintEpochLoss ==
    /\ pc = "print_loss"
    /\ console' = Append(console, Line(e, "epoch_loss"))
    /\ train_loss' = Append(train_loss, <<e, Len(per_epoch_loss)>>)
    /\ pc' = "eval"
    /\ UNCHANGED notLoopVars
    /\ UNCHANGED <<paramVars, e, b, quals_bound, per_epoch_loss, events,
                   train_acc, valid_acc, valid_mrr, valid_mr, valid_hits_3,
                   valid_hits_5, valid_hits_10, bnchmkVars, val_calls,
                   sched_steps, sched_epochs, returned>>

\* if e % eval_every == 0 and e >= 1: summary_val = val_testbench(); the six
\* appends; the metrics line.  The benchmark chooses the MRR; the other metrics
\* are identified by the epoch of the evaluation.
EvaluateDropHits5 ==
    /\ pc = "eval"
    /\ EvalDue(e)
    /\ \E mrr \in MRRValues :
        /\ valid_mrr' = Append(valid_mrr, mrr)
        /\ valid_acc' = Append(valid_acc, e)
        /\ valid_mr' = Append(valid_mr, e)
        /\ valid_hits_3' = Append(valid_hits_3, e)
        /\ valid_hits_5' = valid_hits_5
        /\ valid_hits_10' = Append(valid_hits_10, e)
    /\ events' = Append(events, "val_testbench")
    /\ val_calls' = Append(val_calls, e)
    /\ console' = Append(console, Line(e, "metrics"))
    /\ pc' = "early_stop"
    /\ UNCHANGED notLoopVars
    /\ UNCHANGED <<paramVars, e, b, quals_bound, per_epoch_loss, train_loss,
                   train_acc, bnchmkVars, sched_steps, sched_epochs, returned>>
Evaluate ==
    /\ pc = "eval"
    /\ EvalDue(e)
    /\ \E mrr \in MRRValues :
        /\ valid_mrr' = Append(valid_mrr, mrr)
        /\ valid_acc' = Append(valid_acc, e)
        /\ valid_mr' = Append(valid_mr, e)
        /\ valid_hits_3' = Append(valid_hits_3, e)
        /\ valid_hits_5' = Append(valid_hits_5, e)
        /\ valid_hits_10' = Append(valid_hits_10, e)
    /\ events' = Append(events, "val_testbench")
    /\ val_calls' = Append(val_calls, e)
    /\ console' = Append(console, Line(e, "metrics"))
    /\ pc' = "early_stop"
    /\ UNCHANGED notLoopVars
    /\ UNCHANGED <<paramVars, e, b, quals_bound, per_epoch_loss, train_loss,
                   train_acc, bnchmkVars, sched_steps, sched_epochs, returned>>

\* else: the loss-only line.
NoEvaluate ==
    /\ pc = "eval"
    /\ ~EvalDue(e)
    /\ console' = Append(console, Line(e, "loss_only"))
    /\ pc' = "scheduler"
    /\ UNCHANGED notLoopVars
    /\ UNCHANGED <<paramVars, e, b, quals_bound, per_epoch_loss, events,
                   histVars, bnchmkVars, val_calls, sched_steps, sched_epochs,
                   returned>>

\* if early_stopping is not None and ...: print(...); break
EarlyStop ==
    /\ pc = "early_stop"
    /\ EarlyStopCond
    /\ console' = Append(console, Line(e, "early_stop"))
    /\ pc' = "return"
    /\ UNCHANGED notLoopVars
    /\ UNCHANGED <<paramVars, e, b, quals_bound, per_epoch_loss, events,
                   histVars, bnchmkVars, val_calls, sched_steps, sched_epochs,
                   returned>>

NoEarlyStop ==
    /\ pc = "early_stop"
    /\ ~EarlyStopCond
    /\ pc' = "scheduler"
    /\ UNCHANGED notLoopVars
    /\ UNCHANGED <<paramVars, e, b, quals_bound, per_epoch_loss, events,
                   histVars, bnchmkVars, val_calls, sched_steps, sched_epochs,
                   console, returned>>

\* if scheduler is not None: scheduler.step()
SchedulerStepOnlyUnevaluated ==
    /\ pc = "scheduler"
    /\ sched_steps' = IF scheduler /\ ~EvalDue(e) THEN sched_steps + 1 ELSE sched_steps
    /\ sched_epochs' = IF scheduler /\ ~EvalDue(e) THEN Append(sched_epochs, e)
                       ELSE sched_epochs
    /\ pc' = "for_epoch"
    /\ UNCHANGED notLoopVars
    /\ UNCHANGED <<paramVars, e, b, quals_bound, per_epoch_loss, events,
                   histVars, bnchmkVars, val_calls, console, returned>>
SchedulerStep ==
    /\ pc = "scheduler"
    /\ sched_steps' = IF scheduler THEN sched_steps + 1 ELSE sched_steps
    /\ sched_epochs' = IF scheduler THEN Append(sched_epochs, e) ELSE sched_epochs
    /\ pc' = "for_epoch"
    /\ UNCHANGED notLoopVars
    /\ UNCHANGED <<paramVars, e, b, quals_bound, per_epoch_loss, events,
                   histVars, bnchmkVars, val_calls, console, returned>>

\* return train_acc, train_loss, train_acc_bnchmk, ..., valid_hits_10
Return ==
    /\ pc = "return"
    /\ returned' = <<train_acc, train_loss,
                     train_acc_bnchmk, train_mrr_bnchmk,
                     train_hits_3_bnchmk, train_hits_5_bnchmk, train_hits_10_bnchmk,
                     valid_acc, valid_mrr,
                     valid_hits_3, valid_hits_5, valid_hits_10>>
    /\ pc' = "done"
    /\ UNCHANGED notLoopVars
    /\ UNCHANGED <<paramVars, e, b, quals_bound, per_epoch_loss, events,
                   histVars, bnchmkVars, val_calls, sched_steps, sched_epochs,
                   console>>

NextLoop ==
    \/ EpochStart
    \/ EpochsExhausted
    \/ ZeroGrad
    \/ BatchesExhausted
    \/ Unpack
    \/ ModelForward
    \/ ModelForwardUnbound
    \/ Loss
    \/ RecordLoss
    \/ Backward
    \/ ClipGradNorm
    \/ OptStep
    \/ PrintEpochLoss
    \/ Evaluate
    \/ NoEvaluate
    \/ EarlyStop
    \/ NoEarlyStop
    \/ SchedulerStep
    \/ Return

SpecLoop == InitLoop /\ [][NextLoop]_vars

(***************************************************************************)
(* Properties of training_loop_gcn.                                        *)
(***************************************************************************)
\* The last n entries of a list, n <= Len(s).
LastN(s, n) == SubSeq(s, Len(s) - n + 1, Len(s))

\* "The best of the last early_stopping entries is the first of that window."
FirstOfWindowIsBest ==
    /\ early_stopping # None
    /\ Len(valid_mrr) >= Val(early_stopping)
    /\ LET w == LastN(valid_mrr, Val(early_stopping))
       IN  \A i \in 1..Len(w) : w[1] >= w[i]

\* The loop was left through the break of the early-stopping branch.
EarlyStopped == console # <<>> /\ console[Len(console)].kind = "early_stop"

\* Epoch k was evaluated.
Evaluated(k) == \E i \in 1..Len(val_calls) : val_calls[i] = k

\* Epoch k has passed its evaluation decision (and its early-stopping test).
EpochDecided(k) ==
    \/ k < e
    \/ k = e /\ pc \in {"scheduler", "for_epoch", "return", "done"}

\* C1: right after an evaluation the loop terminates exactly when
\* early_stopping is set, valid_mrr has at least early_stopping entries and the
\* first entry of the window of the last early_stopping entries is its best
\* (ties included); otherwise it goes on to the scheduler step and the next
\* epoch if one remains.  After the break no epoch starts, no batch step and
\* no evaluation runs.  With MRRs 0.5, 0.3, 0.2 and early_stopping = 3 the loop
\* ends at the epoch of the 3rd evaluation.
C1_EarlyStopExactly ==
    /\ [][ /\ (pc = "early_stop" =>
                 IF FirstOfWindowIsBest
                 THEN pc' = "return" /\ EarlyStopped'
                 ELSE pc' = "scheduler" /\ ~EarlyStopped')
           /\ (pc = "scheduler" => pc' = "for_epoch")
           /\ (pc = "for_epoch" /\ e < epochs => e' = e + 1 /\ pc' = "for_batch")
           /\ (EarlyStopped =>
                 /\ e' = e /\ b' = b /\ events' = events
                 /\ val_calls' = val_calls /\ train_loss' = train_loss
                 /\ pc' = "done") ]_vars
    /\ [](( /\ early_stopping = Some(3)
            /\ Len(valid_mrr) >= 3
            /\ SubSeq(valid_mrr, 1, 3) = <<5, 3, 2>>
            /\ pc # "early_stop")
          => /\ EarlyStopped
             /\ Len(val_calls) = 3
             /\ e = val_calls[3]
             /\ Len(train_loss) = e)

C1_Witness ==
    /\ pc = "done" /\ EarlyStopped
    /\ early_stopping = Some(3) /\ valid_mrr = <<5, 3, 2>>
    /\ eval_every = 1 /\ epochs = 4 /\ e = 3 /\ nbatches = 2

\* C2 as stated: the validation benchmark runs at every epoch that is a
\* multiple of eval_every and also at epoch 1 whatever eval_every is, and at
\* no other epoch.
C2_EvalAlsoAtEpochOne ==
    \A k \in 1..e :
        EpochDecided(k) => (Evaluated(k) <=> (k % eval_every = 0 \/ k = 1))

\* C2 (amended): the validation benchmark runs, exactly once, at every epoch
\* reached that is a multiple of eval_every and at no other epoch; epoch 1 is
\* evaluated only when eval_every = 1.
C2_EvalAtMultiplesOnly ==
    /\ \A k \in 1..e :
        /\ EpochDecided(k) => (Evaluated(k) <=> k % eval_every = 0)
        /\ Evaluated(k) => k % eval_every = 0
    /\ \A i \in 1..Len(val_calls) : val_calls[i] \in 1..e
    /\ \A i, j \in 1..Len(val_calls) : i < j => val_calls[i] < val_calls[j]

C2_Witness ==
    /\ pc = "done" /\ eval_every = 2 /\ e = 4
    /\ val_calls = <<2, 4>> /\ ~Evaluated(1)

\* C3 as stated: with a scheduler configured, at return the number of
\* scheduler steps equals the number of epochs run, early stopping included.
C3_StepsEqualEpochsRun ==
    (pc = "done" /\ scheduler) => sched_steps = e

\* C3 (amended): with a scheduler configured it is stepped exactly once after
\* every epoch that does not end in the early-stopping break, evaluated or
\* not; at return the number of steps is the number of epochs run, less one
\* when the run ended by early stopping.  Without a scheduler there is no step.
C3_StepsExceptStoppingEpoch ==
    /\ sched_steps = Len(sched_epochs)
    /\ \A i \in 1..Len(sched_epochs) : sched_epochs[i] = i
    /\ ~scheduler => sched_steps = 0
    /\ (scheduler /\ pc = "for_epoch") => sched_steps = e
    /\ (scheduler /\ pc = "done") =>
          sched_steps = e - (IF EarlyStopped THEN 1 ELSE 0)

C3_Witness ==
    /\ pc = "done" /\ scheduler /\ EarlyStopped
    /\ eval_every = 2 /\ e = 4 /\ sched_steps = 3

\* C4: at a normal return train_loss has one entry per epoch run, valid_acc,
\* valid_mrr and valid_hits_3/5/10 one entry per evaluation performed (equal
\* lengths, at most that of train_loss), and the training-set benchmark
\* histories are empty.
C4_ReturnedHistories ==
    pc = "done" =>
        /\ Len(returned) = 12
        /\ returned[2] = train_loss
        /\ Len(returned[2]) = e
        /\ \A i \in 1..e : returned[2][i][1] = i
        /\ \A i \in {8, 9, 10, 11, 12} : Len(returned[i]) = Len(val_calls)
        /\ returned[8] = val_calls
        /\ Len(val_calls) <= Len(returned[2])
        /\ \A i \in {3, 4, 5, 6, 7} : returned[i] = <<>>

C4_Witness ==
    /\ pc = "done" /\ EarlyStopped /\ eval_every = 2 /\ e = 4
    /\ Len(returned[2]) = 4 /\ Len(returned[9]) = 2 /\ Len(returned[11]) = 2

\* The formatted lines printed for epoch k, the early-stop notice aside.
RECURSIVE LinesOfIn(_, _)
LinesOfIn(k, s) ==
    IF s = <<>> THEN <<>>
    ELSE (IF Head(s).epoch = k /\ Head(s).kind # "early_stop"
          THEN <<Head(s)>> ELSE <<>>) \o LinesOfIn(k, Tail(s))
LinesOf(k) == LinesOfIn(k, console)

\* C9 as stated: exactly one formatted line per epoch run, the metrics line
\* when the epoch is evaluated and the loss-only line otherwise.
C9_OneLinePerEpoch ==
    \A k \in 1..e :
        EpochDecided(k) =>
            LinesOf(k) = <<Line(k, IF Evaluated(k) THEN "metrics" ELSE "loss_only")>>

\* C9 (amended): exactly two formatted lines per epoch run: first the
\* "[Epoch: e ] Loss" line, then the metrics line when the epoch is evaluated
\* and the loss-only line otherwise (an early-stop notice aside).
C9_TwoLinesPerEpoch ==
    \A k \in 1..e :
        EpochDecided(k) =>
            LinesOf(k) = <<Line(k, "epoch_loss"),
                           Line(k, IF Evaluated(k) THEN "metrics" ELSE "loss_only")>>

C9_Witness ==
    /\ pc = "done" /\ e = 2 /\ eval_every = 2
    /\ LinesOf(1)[2].kind = "loss_only" /\ LinesOf(2)[2].kind = "metrics"

\* The steps of one batch, in the order the claim gives.
BatchSteps ==
    <<"zero_grad", "forward", "loss", "record_loss", "backward">>
    \o (IF grad_clipping THEN <<"clip_grad_norm">> ELSE <<>>)
    \o <<"opt_step">>

RECURSIVE Repeat(_, _)
Repeat(s, n) == IF n = 0 THEN <<>> ELSE s \o Repeat(s, n - 1)

IsPrefix(p, s) == Len(p) <= Len(s) /\ p = SubSeq(s, 1, Len(p))

\* C10: in every epoch the calls are, batch after batch, zero_grad, forward,
\* loss, record the loss, backward, clip_grad_norm (iff grad_clipping),
\* optimizer step, each once; a batch starts only after the previous batch's
\* optimizer step, and val_testbench runs only after the last optimizer step.
C10_BatchStepOrder ==
    /\ IsPrefix(events, Repeat(BatchSteps, nbatches) \o <<"val_testbench">>)
    /\ pc = "for_batch" => Len(events) = b * Len(BatchSteps)
    /\ pc \in {"print_loss", "eval", "early_stop", "scheduler"} =>
          Len(events) >= nbatches * Len(BatchSteps)
    /\ Len(per_epoch_loss) <= b

C10_Witness ==
    /\ nbatches = 2 /\ grad_clipping /\ pc = "early_stop"
    /\ events = Repeat(BatchSteps, 2) \o <<"val_testbench">>
    /\ Len(events) = 15

\* The function has returned its histories.
HasReturned == returned # <<>>

\* An epoch has finished its batch loop: the run is past line 91 of that
\* epoch, or has recorded an epoch loss.
EpochFinished ==
    \/ pc \in {"print_loss", "eval", "early_stop", "scheduler", "return", "done"} /\ e >= 1
    \/ train_loss # <<>>

\* C13: in a call with qualifier_aware = false whose sampler (made at line 65,
\* so in a call with at least one epoch) yields at least one batch, the run
\* never gets past the first batch of the first epoch: after opt.zero_grad()
\* and the unpacking, the call model(_sub, _rel, _quals) raises on the
\* unassigned _quals, before any forward pass, loss, backward pass, clipping
\* or optimizer step; nothing runs after the error, no epoch loss is printed
\* or recorded, no evaluation is made and nothing is returned.  With a
\* non-empty sampler an epoch finishes only when qualifier_aware is true.
C13_UnboundQualsRaises ==
    /\ []((~qualifier_aware /\ nbatches >= 1 /\ epochs >= 1) =>
            /\ pc \in {"for_epoch", "for_batch", "unpack", "forward", "raised"}
            /\ pc = "for_epoch" => e = 0
            /\ pc # "for_epoch" => (e = 1 /\ b <= 1)
            /\ pc \in {"unpack", "forward", "raised"} =>
                  (b = 1 /\ events = <<"zero_grad">>)
            /\ ~quals_bound
            /\ IsPrefix(events, <<"zero_grad">>)
            /\ per_epoch_loss = <<>>
            /\ train_loss = <<>> /\ console = <<>> /\ val_calls = <<>>
            /\ valid_mrr = <<>> /\ sched_steps = 0
            /\ ~HasReturned)
    /\ []((EpochFinished /\ nbatches >= 1) => qualifier_aware)
    /\ [][(pc = "forward" /\ ~qualifier_aware) => pc' = "raised"]_vars
    /\ [][pc # "raised"]_vars

C13_Witness ==
    /\ ~qualifier_aware /\ nbatches = 2 /\ epochs = 3
    /\ pc = "raised" /\ e = 1 /\ b = 1
    /\ events = <<"zero_grad">>
    /\ ~HasReturned

(***************************************************************************)
(* HypRelModel.forward.                                                    *)
(***************************************************************************)
\* A symbolic tensor.
T(op, args, ix) == [op |-> op, args |-> args, ix |-> ix]

\* The stored embedding tables self.ent_embs and self.rel_embs.
ent_embs == T("ent_embs", <<>>, <<>>)
rel_embs == T("rel_embs", <<>>, <<>>)

\* The two outputs of encoder(prop, x_in, r_in).
EncX(enc, prop, x_in, r_in) == T(enc \o ".x:" \o prop, <<x_in, r_in>>, <<>>)
EncR(enc, prop, x_in, r_in) == T(enc \o ".r:" \o prop, <<x_in, r_in>>, <<>>)
EncCall(enc, prop, x_in, r_in) == [enc |-> enc, prop |-> prop, x |-> x_in, r |-> r_in]

\* parallel_forward's fusion: lnorm(drop(matmul(cat((trip_ent_out, x)), W))).
Fuse(trip_ent_out, qx) ==
    T("ent_parallel_lnorm",
      <<T("ent_parallel_drop",
          <<T("matmul", <<T("cat", <<trip_ent_out, qx>>, <<>>),
                          T("ent_parallel_matrix", <<>>, <<>>)>>, <<>>)>>,
          <<>>)>>,
      <<>>)

\* quals_ix[:, 1::2] and quals_ix[:, 0::2] of the flattened qualifier row.
QualsEnts(q) == [i \in 1..(Len(q) \div 2) |-> q[2 * i]]
QualsRels(q) == [i \in 1..((Len(q) + 1) \div 2) |-> q[2 * i - 1]]

\* index_embs(x, r, sub_ix, rel_ix, quals_ix)
index_embs(xx, rr, s_ix, r_ix, q_ix) ==
    <<T("index_select", <<xx>>, <<s_ix>>),
      T("index_select", <<rr>>, <<r_ix>>),
      T("index_select", <<xx>>, QualsEnts(q_ix)),
      T("index_select", <<rr>>, QualsRels(q_ix))>>

\* self.decoder(s_emb, r_emb, qe_emb, qr_emb, x, shape, quals_ix=..., ...)
Decoder(embs, xx, q_ix, extra) ==
    T("decoder", <<embs[1], embs[2], embs[3], embs[4], xx>> \o extra, q_ix)

Ix == 0..MaxIx

\* The call forward(sub_ix, rel_ix, quals_ix, aux_ent) on a model built
\* with the given configuration.
InitModel ==
    /\ IdleLoop
    /\ IdleConv
    /\ only_trips \in BOOLEAN
    /\ parallel \in BOOLEAN
    /\ sub_ix \in Ix /\ rel_ix \in Ix
    /\ quals_ix \in {<<qr, qe>> : qr \in Ix, qe \in Ix}
    /\ aux_ent \in {None} \cup
         {Some([base_sub_ix |-> s, base_rel_ix |-> rel_ix, base_obj_ix |-> o,
                quals |-> quals_ix]) : s \in Ix, o \in Ix}
    /\ fwd_pc = "trip_encoder"
    /\ enc_calls = <<>>
    /\ x1 = None /\ r1 = None /\ x = None /\ r = None
    /\ obj_preds = None /\ aux_ent_preds = None
    /\ fwd_returned = <<>>

\* x1, r1 = self.trip_encoder("trip", init_ent, init_rel)
FwdTripEncoder ==
    /\ fwd_pc = "trip_encoder"
    /\ enc_calls' = Append(enc_calls, EncCall("trip_encoder", "trip", ent_embs, rel_embs))
    /\ x1' = EncX("trip_encoder", "trip", ent_embs, rel_embs)
    /\ r1' = EncR("trip_encoder", "trip", ent_embs, rel_embs)
    /\ fwd_pc' = "qual_encoder"
    /\ UNCHANGED notModelVars
    /\ UNCHANGED <<only_trips, parallel, sub_ix, rel_ix, quals_ix, aux_ent,
                   x, r, obj_preds, aux_ent_preds, fwd_returned>>

\* parallel_forward(trip_ent_out, ent_embs, rel_embs): the qualifier encoder
\* on the embeddings handed in, then the fusion with trip_ent_out.
parallel_forward_calls(trip_ent_out, ent_in, rel_in) ==
    <<EncCall("qual_encoder", "qual", ent_in, rel_in)>>
parallel_forward(trip_ent_out, ent_in, rel_in) ==
    <<Fuse(trip_ent_out, EncX("qual_encoder", "qual", ent_in, rel_in)),
      EncR("qual_encoder", "qual", ent_in, rel_in)>>

\* if self.parallel: x, r = self.parallel_forward(x1, init_ent, r1)
FwdParallelOnTripOutput ==
    /\ fwd_pc = "qual_encoder"
    /\ ~only_trips /\ parallel
    /\ enc_calls' = enc_calls \o parallel_forward_calls(x1, x1, r1)
    /\ x' = parallel_forward(x1, x1, r1)[1]
    /\ r' = parallel_forward(x1, x1, r1)[2]
    /\ fwd_pc' = "decode"
    /\ UNCHANGED notModelVars
    /\ UNCHANGED <<only_trips, parallel, sub_ix, rel_ix, quals_ix, aux_ent,
                   x1, r1, obj_preds, aux_ent_preds, fwd_returned>>
FwdParallel ==
    /\ fwd_pc = "qual_encoder"
    /\ ~only_trips /\ parallel
    /\ enc_calls' = enc_calls \o parallel_forward_calls(x1, ent_embs, r1)
    /\ x' = parallel_forward(x1, ent_embs, r1)[1]
    /\ r' = parallel_forward(x1, ent_embs, r1)[2]
    /\ fwd_pc' = "decode"
    /\ UNCHANGED notModelVars
    /\ UNCHANGED <<only_trips, parallel, sub_ix, rel_ix, quals_ix, aux_ent,
                   x1, r1, obj_preds, aux_ent_preds, fwd_returned>>

\* else: x, r = self.qual_encoder("qual", x1, r1)
FwdSequential ==
    /\ fwd_pc = "qual_encoder"
    /\ ~only_trips /\ ~parallel
    /\ enc_calls' = Append(enc_calls, EncCall("qual_encoder", "qual", x1, r1))
    /\ x' = EncX("qual_encoder", "qual", x1, r1)
    /\ r' = EncR("qual_encoder", "qual", x1, r1)
    /\ fwd_pc' = "decode"
    /\ UNCHANGED notModelVars
    /\ UNCHANGED <<only_trips, parallel, sub_ix, rel_ix, quals_ix, aux_ent,
                   x1, r1, obj_preds, aux_ent_preds, fwd_returned>>

\* else (ONLY-TRIPS): x, r = x1, r1
FwdOnlyTrips ==
    /\ fwd_pc = "qual_encoder"
    /\ only_trips
    /\ x' = x1
    /\ r' = r1
    /\ fwd_pc' = "decode"
    /\ UNCHANGED notModelVars
    /\ UNCHANGED <<only_trips, parallel, sub_ix, rel_ix, quals_ix, aux_ent,
                   enc_calls, x1, r1, obj_preds, aux_ent_preds, fwd_returned>>

\* s_emb, ... = self.index_embs(x, r, sub_ix, rel_ix, quals_ix);
\* obj_preds = self.decoder(...)
FwdDecode ==
    /\ fwd_pc = "decode"
    /\ obj_preds' = Decoder(index_embs(x, r, sub_ix, rel_ix, quals_ix), x,
                            quals_ix, <<>>)
    /\ fwd_pc' = "aux"
    /\ UNCHANGED notModelVars
    /\ UNCHANGED <<only_trips, parallel, sub_ix, rel_ix, quals_ix, aux_ent,
                   enc_calls, x1, r1, x, r, aux_ent_preds, fwd_returned>>

\* if aux_ent is not None: index_embs_aux(...), the decoder with tail_embs=o_emb
FwdAux ==
    /\ fwd_pc = "aux"
    /\ aux_ent # None
    /\ LET a == Val(aux_ent)
           o_emb == T("index_select", <<x>>, <<a.base_obj_ix>>)
       IN  aux_ent_preds' =
             Decoder(index_embs(x, r, a.base_sub_ix, a.base_rel_ix, a.quals), x,
                     a.quals, <<o_emb>>)
    /\ fwd_pc' = "return"
    /\ UNCHANGED notModelVars
    /\ UNCHANGED <<only_trips, parallel, sub_ix, rel_ix, quals_ix, aux_ent,
                   enc_calls, x1, r1, x, r, obj_preds, fwd_returned>>

FwdNoAux ==
    /\ fwd_pc = "aux"
    /\ aux_ent = None
    /\ fwd_pc' = "return"
    /\ UNCHANGED notModelVars
    /\ UNCHANGED <<only_trips, parallel, sub_ix, rel_ix, quals_ix, aux_ent,
                   enc_calls, x1, r1, x, r, obj_preds, aux_ent_preds,
                   fwd_returned>>

\* return obj_preds, aux_ent_preds
FwdReturn ==
    /\ fwd_pc = "return"
    /\ fwd_returned' = <<obj_preds, aux_ent_preds>>
    /\ fwd_pc' = "done"
    /\ UNCHANGED notModelVars
    /\ UNCHANGED <<only_trips, parallel, sub_ix, rel_ix, quals_ix, aux_ent,
                   enc_calls, x1, r1, x, r, obj_preds, aux_ent_preds>>

NextModel ==
    \/ FwdTripEncoder
    \/ FwdParallel
    \/ FwdSequential
    \/ FwdOnlyTrips
    \/ FwdDecode
    \/ FwdAux
    \/ FwdNoAux
    \/ FwdReturn

SpecModel == InitModel /\ [][NextModel]_vars

(***************************************************************************)
(* Properties of HypRelModel.forward.                                      *)
(***************************************************************************)
\* What the claim says about every configuration but PARALLEL: the triple
\* encoder runs first on the stored tables; with ONLY-TRIPS it is the only
\* encoder run and its outputs are indexed and decoded; sequentially the
\* qualifier encoder receives the triple encoder's outputs.
C5_Common ==
    fwd_pc = "done" =>
        /\ enc_calls[1] = EncCall("trip_encoder", "trip", ent_embs, rel_embs)
        /\ x1 = EncX("trip_encoder", "trip", ent_embs, rel_embs)
        /\ r1 = EncR("trip_encoder", "trip", ent_embs, rel_embs)
        /\ fwd_returned[1] =
             Decoder(index_embs(x, r, sub_ix, rel_ix, quals_ix), x, quals_ix, <<>>)
        /\ only_trips =>
             /\ Len(enc_calls) = 1
             /\ x = x1 /\ r = r1
        /\ (~only_trips /\ ~parallel) =>
             /\ Len(enc_calls) = 2
             /\ enc_calls[2] = EncCall("qual_encoder", "qual", x1, r1)
             /\ x = EncX("qual_encoder", "qual", x1, r1)
             /\ r = EncR("qual_encoder", "qual", x1, r1)

\* C5 as stated: ... and with PARALLEL true the qualifier encoder receives the
\* original entity and relation embeddings, its entity output being fused with
\* the triple encoder's entity output.
C5_ParallelOnOriginalTables ==
    /\ C5_Common
    /\ (fwd_pc = "done" /\ ~only_trips /\ parallel) =>
          /\ Len(enc_calls) = 2
          /\ enc_calls[2] = EncCall("qual_encoder", "qual", ent_embs, rel_embs)
          /\ x = Fuse(x1, EncX("qual_encoder", "qual", ent_embs, rel_embs))

\* C5 (amended): ... and with PARALLEL true the qualifier encoder receives the
\* original entity embeddings together with the triple encoder's relation
\* output r1 (not the original relation table); its entity output is fused
\* with the triple encoder's entity output and its relation output is used
\* as it is.
C5_ParallelOnOriginalEntities ==
    /\ C5_Common
    /\ (fwd_pc = "done" /\ ~only_trips /\ parallel) =>
          /\ Len(enc_calls) = 2
          /\ enc_calls[2] = EncCall("qual_encoder", "qual", ent_embs, r1)
          /\ x = Fuse(x1, EncX("qual_encoder", "qual", ent_embs, r1))
          /\ r = EncR("qual_encoder", "qual", ent_embs, r1)

C5_Witness ==
    /\ fwd_pc = "done" /\ ~only_trips /\ parallel
    /\ Len(enc_calls) = 2 /\ enc_calls[2].x = ent_embs /\ enc_calls[2].r = r1
    /\ fwd_returned[1].args[5] = x /\ x.op = "ent_parallel_lnorm"

(***************************************************************************)
(* CompGCNConv.  Modelled: the index plumbing of forward (lines 58-114),    *)
(* compute_norm, qual_inverse_edges and the composition comp_agg that       *)
(* message builds for each edge group, with optional auxiliary embeddings   *)
(* absent (aux_ents = None).  The weight matrices, dropout and batch norm   *)
(* applied afterwards are not.                                             *)
(***************************************************************************)
Ents == {0, 1}
Rels == {0, 1}
num_ent == Cardinality(Ents)      \* x.size(0)
num_rels == Cardinality(Rels)     \* self.num_rels

\* The entity table x, the relation table rel_embed (2 * num_rels rows) and
\* self.loop_rel: pairwise distinct rows.
x_embed == [i \in 1..num_ent |-> i + 1]
rel_embed == [i \in 1..(2 * num_rels) |-> 2 * i + 3]
loop_rel == <<2 * (2 * num_rels + 1) + 3>>

\* t[idx] for an index tensor idx, and whether it raises IndexError.
Gather(t, idx) == [k \in 1..Len(idx) |-> t[idx[k] + 1]]
InRange(t, idx) == \A k \in 1..Len(idx) : idx[k] \in 0..(Len(t) - 1)
\* t[lo:hi]
PySlice(t, lo, hi) == SubSeq(t, lo + 1, hi)
\* t + c
AddAll(t, c) == [k \in 1..Len(t) |-> t[k] + c]

\* torch_scatter.scatter_add(src, index, dim=0, dim_size=dim_size)
RECURSIVE SumAt(_, _, _, _)
SumAt(src, index, t, n) ==
    IF n = 0 THEN 0
    ELSE SumAt(src, index, t, n - 1) + (IF index[n] = t THEN src[n] ELSE 0)
scatter_add(src, index, dim_size) ==
    [t \in 1..dim_size |-> SumAt(src, index, t - 1, Len(src))]

\* comp_func for the elementwise operators ('corr' and 'rotate' call helpers
\* that are not part of the layer).
comp_func(ent_rows, rel_rows) ==
    [k \in 1..Len(ent_rows) |->
        IF opn = "sub" THEN ent_rows[k] - rel_rows[k] ELSE ent_rows[k] * rel_rows[k]]

\* Float values of compute_norm: 0, 1/sqrt(n) for n >= 1, inf, nan.
Zero == [kind |-> "zero", n |-> 0]
Inf == [kind |-> "inf", n |-> 0]
NaN == [kind |-> "nan", n |-> 0]
InvSqrt(n) == [kind |-> "invsqrt", n |-> n]
One == InvSqrt(1)
PowNegHalf(d) == IF d = 0 THEN Inf ELSE InvSqrt(d)
FMul(a, c) ==
    IF a.kind = "nan" \/ c.kind = "nan" THEN NaN
    ELSE IF a.kind = "zero" \/ c.kind = "zero"
         THEN (IF a.kind = "inf" \/ c.kind = "inf" THEN NaN ELSE Zero)
    ELSE IF a.kind = "inf" \/ c.kind = "inf" THEN Inf
    ELSE InvSqrt(a.n * c.n)

\* compute_norm(edge_index, num_ent)
compute_norm_no_remap(index, n) ==
    LET row == index[1]
        col == index[2]
        edge_weight == [k \in 1..Len(row) |-> 1]
        deg == scatter_add(edge_weight, row, n)
        deg_inv == [v \in 1..n |-> PowNegHalf(deg[v])]
    IN  [k \in 1..Len(row) |->
            FMul(FMul(deg_inv[row[k] + 1], One), deg_inv[col[k] + 1])]
compute_norm(index, n) ==
    LET row == index[1]
        col == index[2]
        edge_weight == [k \in 1..Len(row) |-> 1]
        deg == scatter_add(edge_weight, row, n)
        deg_pow == [v \in 1..n |-> PowNegHalf(deg[v])]
        deg_inv == [v \in 1..n |-> IF deg_pow[v] = Inf THEN Zero ELSE deg_pow[v]]
    IN  [k \in 1..Len(row) |->
            FMul(FMul(deg_inv[row[k] + 1], One), deg_inv[col[k] + 1])]

\* A variant that takes the heads of the inverse parent edges (the triples'
\* objects) as the final tails.
qual_inverse_edges_object_tails(inv_edge_index, q) ==
    LET nq == Len(q[1]) \div 2
        quals_ent_out_index == PySlice(q[2], nq, 2 * nq)
        quals_rel_out_index == AddAll(PySlice(q[1], nq, 2 * nq), num_rels)
        quals_parent_out_index == PySlice(q[3], nq, 2 * nq)
        inv_tails == Gather(inv_edge_index[1], quals_parent_out_index)
    IN  <<<<quals_ent_out_index, inv_tails>>, quals_rel_out_index>>

\* qual_inverse_edges(inv_edge_index, quals): <<new_edge_index, quals_rel_out_index>>
qual_inverse_edges(inv_edge_index, q) ==
    LET nq == Len(q[1]) \div 2
        quals_ent_out_index == PySlice(q[2], nq, 2 * nq)
        quals_rel_out_index == AddAll(PySlice(q[1], nq, 2 * nq), num_rels)
        quals_parent_out_index == PySlice(q[3], nq, 2 * nq)
        inv_tails == Gather(inv_edge_index[2], quals_parent_out_index)
    IN  <<<<quals_ent_out_index, inv_tails>>, quals_rel_out_index>>

\* The result of a call that may raise.
Ok(rows) == [ok |-> TRUE, rows |-> rows]
IndexError == [ok |-> FALSE, rows |-> <<>>]

\* combine_quals(mode, x_j, ent_embed, rel_embed, ent_index, rel_index, quals_index)
combine_quals(mode, x_j, ent_table, rel_rows, ent_index, rel_index, quals_index) ==
    IF ~InRange(rel_rows, rel_index) THEN IndexError
    ELSE LET qualifier_emb_rel == Gather(rel_rows, rel_index)
         IN  IF mode = "out"
             THEN Ok(comp_func(x_j, qualifier_emb_rel))
             ELSE LET qualifier_emb_ent == Gather(ent_table, ent_index)
                      qual_embeddings == comp_func(qualifier_emb_ent, qualifier_emb_rel)
                  IN  Ok(scatter_add(qual_embeddings, quals_index, Len(rel_rows)))

\* combine_quals_trips: alpha * comp(x_j, trip_rel_embed)
\* + (1 - alpha) * comp(x_j, rel_embed), kept as the two mixed terms.
combine_quals_trips(x_j, rel_rows, trip_obj_embed, trip_rel_embed) ==
    [k \in 1..Len(x_j) |->
        [alpha_term |-> comp_func(x_j, trip_rel_embed)[k],
         rest_term |-> comp_func(x_j, rel_rows)[k]]]

\* comp_agg of message(...) for one edge group; x_j = x[index[1]] under
\* flow = 'target_to_source'.
message(mode, index, e_type, rel_emb_all, qualifier_ent, qualifier_rel, qual_index, p_type, both_obj_index, trip_rel) ==
    LET x_j == Gather(x_embed, index[2])
        rel_sub_embs == Gather(rel_emb_all, e_type)
    IN  IF mode = "loop" THEN Ok(comp_func(x_j, rel_sub_embs))
        ELSE IF p_type = "trip" THEN Ok(comp_func(x_j, rel_sub_embs))
        ELSE IF p_type = "qual"
             THEN combine_quals(mode, x_j, x_embed, rel_sub_embs, qualifier_ent,
                                qualifier_rel, qual_index)
        ELSE Ok(combine_quals_trips(x_j, rel_sub_embs,
                                    Gather(x_embed, both_obj_index),
                                    Gather(rel_emb_all, trip_rel)))

\* edge_index[1][quals_index] of lines 106-107.
BothObjFromInverseHalf(quals_index) ==
    Gather(PySlice(edge_index[2], Len(edge_index[2]) \div 2, Len(edge_index[2])),
           quals_index)
BothObj(quals_index) == Gather(edge_index[2], quals_index)

\* The locals of forward(prop_type = p, x, edge_index, edge_type, rel_embed, quals)
\* up to the two compute_norm calls.
ForwardLocals(p) ==
    LET num_quals == Len(quals[1]) \div 2
        num_edges == Len(edge_index[1]) \div 2
        in_index0 == <<PySlice(edge_index[1], 0, num_edges),
                       PySlice(edge_index[2], 0, num_edges)>>
        out_index0 == <<PySlice(edge_index[1], num_edges, 2 * num_edges),
                        PySlice(edge_index[2], num_edges, 2 * num_edges)>>
        in_type0 == PySlice(edge_type, 0, num_edges)
        out_type0 == PySlice(edge_type, num_edges, 2 * num_edges)
        in_index_qual_ent == PySlice(quals[2], 0, num_quals)
        out_index_qual_ent == PySlice(quals[2], num_quals, 2 * num_quals)
        in_index_qual_rel == PySlice(quals[1], 0, num_quals)
        out_index_qual_rel == PySlice(quals[1], num_quals, 2 * num_quals)
        quals_index_in == PySlice(quals[3], 0, num_quals)
        quals_index_out == PySlice(quals[3], num_quals, 2 * num_quals)
        inv == qual_inverse_edges(out_index0, quals)
        out_index1 == IF p = "qual" THEN inv[1] ELSE out_index0
        out_type1 == IF p = "qual" THEN inv[2] ELSE out_type0
        both == (p = "both")
        in_index2 == IF both
                     THEN <<in_index_qual_ent, Gather(edge_index[1], quals_index_in)>>
                     ELSE in_index0
        out_index2 == IF both
                      THEN <<Gather(edge_index[1], quals_index_in), in_index_qual_ent>>
                      ELSE out_index1
        in_type2 == IF both THEN in_index_qual_rel ELSE in_type0
        out_type2 == IF both THEN AddAll(out_index_qual_rel, num_rels) ELSE out_type1
    IN  [rel_emb_all |-> rel_embed \o loop_rel,
         in_index |-> in_index2, out_index |-> out_index2,
         in_type |-> in_type2, out_type |-> out_type2,
         in_index_qual_ent |-> in_index_qual_ent,
         out_index_qual_ent |-> out_index_qual_ent,
         in_index_qual_rel |-> in_index_qual_rel,
         out_index_qual_rel |-> out_index_qual_rel,
         quals_index_in |-> quals_index_in,
         quals_index_out |-> quals_index_out,
         loop_index |-> <<[v \in 1..num_ent |-> v - 1], [v \in 1..num_ent |-> v - 1]>>,
         loop_type |-> [v \in 1..num_ent |-> Len(rel_embed \o loop_rel) - 1],
         both_obj_in |-> IF both THEN BothObj(quals_index_in) ELSE None,
         both_obj_out |-> IF both THEN BothObj(quals_index_out) ELSE None,
         trip_rel_in |-> IF both THEN in_type2 ELSE None,
         trip_rel_out |-> IF both THEN in_type2 ELSE None,
         in_norm |-> compute_norm(in_index2, num_ent),
         out_norm |-> compute_norm(out_index2, num_ent)]

\* The call forward(p, ...) on the arguments given: the locals, then the three propagate calls in
\* order; an IndexError raised in message leaves forward at once.
Forward(p) ==
    /\ conv_status = "idle"
    /\ edge_type # <<>>
    /\ \E l \in {ForwardLocals(p)} :
       \E in_res \in {message("in", l.in_index, l.in_type, l.rel_emb_all,
                              l.in_index_qual_ent, l.in_index_qual_rel,
                              l.quals_index_in, p, l.both_obj_in, l.trip_rel_in)} :
       \E out_res \in {message("out", l.out_index, l.out_type, l.rel_emb_all,
                               l.out_index_qual_ent, l.out_index_qual_rel,
                               l.quals_index_out, p, l.both_obj_out, l.trip_rel_out)} :
       \E loop_res \in {message("loop", l.loop_index, l.loop_type, l.rel_emb_all,
                                None, None, None, p, None, None)} :
           /\ prop_type' = p
           /\ in_index' = l.in_index /\ out_index' = l.out_index
           /\ in_type' = l.in_type /\ out_type' = l.out_type
           /\ both_obj_in' = l.both_obj_in /\ both_obj_out' = l.both_obj_out
           /\ trip_rel_in' = l.trip_rel_in /\ trip_rel_out' = l.trip_rel_out
           /\ in_norm' = l.in_norm /\ out_norm' = l.out_norm
           /\ in_msg' = IF in_res.ok THEN in_res.rows ELSE None
           /\ out_msg' = IF in_res.ok /\ out_res.ok THEN out_res.rows ELSE None
           /\ loop_msg' = IF in_res.ok /\ out_res.ok THEN loop_res.rows ELSE None
           /\ conv_status' = IF in_res.ok /\ out_res.ok THEN "returned" ELSE "IndexError"
    /\ UNCHANGED notConvVars
    /\ UNCHANGED convInputs

ForwardTrip == Forward("trip")
ForwardQual == Forward("qual")
ForwardBoth == Forward("both")

\* The arguments of a call: E >= 1 triples and Q qualifiers packed as the
\* layer expects them (the second half of edge_index is the inverse of the
\* first, inverse edge types are offset by num_rels, the two halves of quals
\* are copies of each other), E + Q <= MaxSize.
Triples == [sub : Ents, rel : Rels, obj : Ents]
QualsOf(n) == [rel : Rels, ent : Ents, parent : 0..(n - 1)]

InitConv ==
    /\ IdleLoop
    /\ IdleModel
    /\ \E n \in 1..MaxSize : \E m \in 0..(MaxSize - n) :
       \E trips \in [1..n -> Triples] : \E qs \in [1..m -> QualsOf(n)] :
        /\ edge_index =
            <<[k \in 1..(2 * n) |-> IF k <= n THEN trips[k].sub ELSE trips[k - n].obj],
              [k \in 1..(2 * n) |-> IF k <= n THEN trips[k].obj ELSE trips[k - n].sub]>>
        /\ edge_type =
            [k \in 1..(2 * n) |->
                IF k <= n THEN trips[k].rel ELSE trips[k - n].rel + num_rels]
        /\ quals =
            <<[k \in 1..(2 * m) |-> qs[((k - 1) % m) + 1].rel],
              [k \in 1..(2 * m) |-> qs[((k - 1) % m) + 1].ent],
              [k \in 1..(2 * m) |-> qs[((k - 1) % m) + 1].parent]>>
    /\ opn \in {"sub", "mult"}
    /\ prop_type = "none"
    /\ conv_status = "idle"
    /\ in_index = None /\ out_index = None /\ in_type = None /\ out_type = None
    /\ both_obj_in = None /\ both_obj_out = None
    /\ trip_rel_in = None /\ trip_rel_out = None
    /\ in_norm = None /\ out_norm = None
    /\ in_msg = None /\ out_msg = None /\ loop_msg = None

NextConv ==
    \/ ForwardTrip
    \/ ForwardQual
    \/ ForwardBoth

SpecConv == InitConv /\ [][NextConv]_vars

(***************************************************************************)
(* Properties of CompGCNConv.                                              *)
(***************************************************************************)
NumEdges == Len(edge_index[1]) \div 2
NumQuals == Len(quals[1]) \div 2

\* Forward triple p (0-based) and forward-half qualifier j (1-based).
SubOf(p) == edge_index[1][p + 1]
ObjOf(p) == edge_index[2][p + 1]
QualRel(j) == quals[1][j]
QualEnt(j) == quals[2][j]
QualParent(j) == quals[3][j]

RECURSIVE SumOver(_, _)
SumOver(S, f) ==
    IF S = {} THEN 0
    ELSE LET j == CHOOSE j \in S : TRUE IN f[j] + SumOver(S \ {j}, f)

\* C6: under 'qual' propagation the coalesced rows of the forward ('in') group
\* are, for every forward triple t, the sum over the forward-half qualifiers
\* with parent t of comp(entity-table row of the qualifier's entity id,
\* relation-table row of the qualifier's relation id); zero for a triple
\* without qualifiers; one row per forward triple.
C6_CoalescedQualifierSums ==
    (prop_type = "qual" /\ conv_status = "returned") =>
        /\ Len(in_msg) = NumEdges
        /\ \A t \in 1..NumEdges :
            in_msg[t] =
              SumOver({j \in 1..NumQuals : QualParent(j) = t - 1},
                      [j \in 1..NumQuals |->
                          comp_func(<<x_embed[QualEnt(j) + 1]>>,
                                    <<(rel_embed \o loop_rel)[QualRel(j) + 1]>>)[1]])

\* C7: for every qualifier j, under 'both' propagation both_obj_in[j] and
\* both_obj_out[j] are the object id of the forward triple at j's parent
\* index, and under 'qual' propagation the target of rewritten inverse edge j
\* is the subject of that same triple.
C7_BothObjAndInverseTail ==
    /\ prop_type = "both" =>
          /\ Len(both_obj_in) = NumQuals /\ Len(both_obj_out) = NumQuals
          /\ \A j \in 1..NumQuals :
                /\ both_obj_in[j] = ObjOf(QualParent(j))
                /\ both_obj_out[j] = ObjOf(QualParent(j))
    /\ prop_type = "qual" =>
          /\ Len(out_index[2]) = NumQuals
          /\ \A j \in 1..NumQuals : out_index[2][j] = SubOf(QualParent(j))

C7_Witness ==
    /\ prop_type = "both" /\ conv_status = "returned"
    /\ NumEdges = 2 /\ NumQuals = 1 /\ QualParent(1) = 1
    /\ SubOf(0) = 0 /\ ObjOf(0) = 0 /\ SubOf(1) = 0 /\ ObjOf(1) = 1
    /\ both_obj_in = <<1>> /\ both_obj_out = <<1>>

\* The number of edges of an edge list that arrive at entity v: under the
\* layer's flow = 'target_to_source' these are the edges whose row-0 entry is v.
InDegree(index, v) == Cardinality({k \in 1..Len(index[1]) : index[1][k] = v})

NormFinite(index, norm) ==
    /\ Len(norm) = Len(index[1])
    /\ \A k \in 1..Len(norm) : norm[k].kind \in {"zero", "invsqrt"}
    /\ (\A v \in Ents : InDegree(index, v) = 1) =>
          \A k \in 1..Len(norm) : norm[k] = One
    /\ \A k \in 1..Len(norm) :
          (InDegree(index, index[1][k]) = 0 \/ InDegree(index, index[2][k]) = 0)
             => norm[k] = Zero

InvQualRel(j) == quals[1][NumQuals + j]
InvQualEnt(j) == quals[2][NumQuals + j]
InvQualParent(j) == quals[3][NumQuals + j]

\* C11: under 'both' propagation, for every qualifier j the triple-relation id
\* handed to the message step for synthesized edge j, forward (trip_rel_in)
\* and inverse (trip_rel_out), is edge_type at j's parent-triple index, while
\* the edge's own type is the qualifier relation id, plus num_rels for the
\* inverse edge.
C11_TripRelIsParentRelation ==
    prop_type = "both" =>
        /\ Len(trip_rel_in) = NumQuals /\ Len(trip_rel_out) = NumQuals
        /\ Len(in_type) = NumQuals /\ Len(out_type) = NumQuals
        /\ \A j \in 1..NumQuals :
              /\ trip_rel_in[j] = edge_type[QualParent(j) + 1]
              /\ trip_rel_out[j] = edge_type[InvQualParent(j) + 1]
              /\ in_type[j] = QualRel(j)
              /\ out_type[j] = InvQualRel(j) + num_rels

\* C12: under 'qual' propagation the inverse edge group is replaced by exactly
\* one edge per inverse-half qualifier j: its first endpoint is the
\* qualifier's entity, its second endpoint the subject (not the object) of the
\* qualifier's parent triple, its type the qualifier's relation id plus
\* num_rels; the forward edge group and its types are the first halves of
\* edge_index and edge_type, and the call leaves edge_index, edge_type and
\* quals as they were.
C12_QualInverseEdges ==
    /\ [](prop_type = "qual" =>
            /\ Len(out_index[1]) = NumQuals /\ Len(out_index[2]) = NumQuals
            /\ Len(out_type) = NumQuals
            /\ \A j \in 1..NumQuals :
                  /\ out_index[1][j] = InvQualEnt(j)
                  /\ out_index[2][j] = SubOf(InvQualParent(j))
                  /\ out_type[j] = InvQualRel(j) + num_rels
            /\ Len(in_index[1]) = NumEdges /\ Len(in_index[2]) = NumEdges
            /\ Len(in_type) = NumEdges
            /\ \A k \in 1..NumEdges :
                  /\ in_index[1][k] = edge_index[1][k]
                  /\ in_index[2][k] = edge_index[2][k]
                  /\ in_type[k] = edge_type[k])
    /\ [][prop_type' = "qual" =>
            /\ edge_index' = edge_index
            /\ edge_type' = edge_type
            /\ quals' = quals]_vars

\* One triple (s = 0, r = 1, o = 1) with one qualifier (rel 0, ent 1): the
\* rewritten inverse edge runs from the qualifier entity 1 to the subject 0.
C12_Witness ==
    /\ prop_type = "qual" /\ conv_status = "returned"
    /\ edge_index = <<<<0, 1>>, <<1, 0>>>> /\ edge_type = <<1, 3>>
    /\ quals = <<<<0, 0>>, <<1, 1>>, <<0, 0>>>>
    /\ out_index = <<<<1>>, <<0>>>> /\ out_type = <<2>>
    /\ in_index = <<<<0>>, <<1>>>> /\ in_type = <<1>>

====
